---- MODULE Spec2Model ----
(***************************************************************************)
(* bevy_fontmesh: the two layout systems of src/system.rs.                 *)
(*                                                                         *)
(*   update_text_meshes   one combined mesh per TextMesh entity            *)
(*   update_glyph_meshes  one child entity per glyph of a TextMeshGlyphs   *)
(*                                                                         *)
(* Lengths are integers in units of 1/40 (0.3 is 12 units).  Every advance *)
(* of the modelled font is a multiple of 4 and every local vertex          *)
(* coordinate a multiple of 2, so each product with 0.5 that the code      *)
(* forms is exact; f32 rounding is not modelled.  A Custom pivot is a pair *)
(* of integers counted in halves (3 is the fraction 1.5).                  *)
(***************************************************************************)
EXTENDS Integers, Sequences, FiniteSets, TLC

\* ------------------------------------------------------------------ bounds

\* Longest text the layout specification draws.
MaxLen == 3

\* Warnings counted per source since its last change before the count stops.
MaxWarnings == 2

\* ------------------------------------------------------- program constants

\* `0.3`, the advance of a whitespace character the font has no glyph for.
FallbackSpace == 12

\* f32::MAX, the start value of min_bound (max_bound starts at its negation).
F32_MAX == 1000000

\* --------------------------------------------------------------- the font

NL == "\n"

\* "A", "B"  glyphs with an outline
\* " "       whitespace the font has a glyph for
\* "t"       whitespace the font has no glyph for (a tab)
\* "x"       a glyph whose mesh generation fails (it has an advance)
\* "z"       a non-whitespace character the font has no glyph for
Chars == {"A", "B", " ", "t", "x", "z", NL}

\* char::is_whitespace
IsWhitespace(ch) == ch \in {" ", "t", NL}

FontIds == {"f1", "f2", "f3"}

\* Font::from_bytes on the bytes of each font asset: "f1" and "f3" parse,
\* "f2" holds bytes that do not.
FromBytes(f) ==
    CASE f = "f1" ->
           [ok |-> TRUE,
            ascender |-> 16, descender |-> -4, line_gap |-> 2,
            advance |-> [ch \in {"A", "B", " ", "x"} |->
                           CASE ch = "A" -> 8
                             [] ch = "B" -> 12
                             [] ch = " " -> 4
                             [] ch = "x" -> 4]]
      [] f = "f3" ->
           [ok |-> TRUE,
            ascender |-> 12, descender |-> -4, line_gap |-> 0,
            advance |-> [ch \in {"A", "B", " "} |->
                           CASE ch = "A" -> 4
                             [] ch = "B" -> 8
                             [] ch = " " -> 8]]
      [] OTHER -> [ok |-> FALSE]

\* font.glyph_by_char(ch).is_ok()
HasGlyph(font, ch) == ch \in DOMAIN font.advance

\* glyph.advance()
GlyphAdvance(font, ch) == font.advance[ch]

\* glyph.with_subdivisions(s).to_mesh_3d(depth): the extruded outline of the
\* glyph in its own space, or an error.  "B" has a curve, which one more
\* subdivision flattens with one more vertex.
ToMesh3d(ch, subdivision, depth) ==
    CASE ch = "A" ->
           [ok |-> TRUE,
            vertices |-> << <<0, 0, 0>>, <<6, 0, 0>>, <<2, 12, -depth>> >>,
            normals  |-> << <<0, 0, 1>>, <<0, 0, 1>>, <<0, 1, 0>> >>,
            indices  |-> <<0, 1, 2>>]
      [] ch = "B" ->
           [ok |-> TRUE,
            vertices |-> << <<2, -2, 0>>, <<10, -2, 0>>, <<10, 8, 0>>,
                            <<2, 8, -depth>> >>
                         \o (IF subdivision > 0 THEN << <<12, 4, -depth>> >>
                             ELSE << >>),
            normals  |-> << <<0, 0, -1>>, <<1, 0, 0>>, <<0, 0, -1>>,
                            <<-1, 0, 0>> >>
                         \o (IF subdivision > 0 THEN << <<1, 1, 0>> >>
                             ELSE << >>),
            indices  |-> <<0, 1, 2, 2, 3, 0>>
                         \o (IF subdivision > 0 THEN <<1, 4, 2>> ELSE << >>)]
      [] OTHER -> [ok |-> FALSE]

\* font.glyph_by_char(ch).and_then(|g| g.with_subdivisions(..).to_mesh_3d(..))
MeshRes(font, ch, style) ==
    IF HasGlyph(font, ch)
    THEN ToMesh3d(ch, style.subdivision, style.depth)
    ELSE [ok |-> FALSE]

\* ------------------------------------------------------------ components

Justifies == {"Left", "Center", "Right"}

NamedAnchors == {"TopLeft", "TopCenter", "TopRight",
                 "CenterLeft", "Center", "CenterRight",
                 "BottomLeft", "BottomCenter", "BottomRight"}

\* TextAnchor::Custom(pivot), pivot in halves: inside, on and outside the box.
CustomPivots == {<<1, 2>>, <<-1, 3>>}

Anchors == [kind : NamedAnchors, pivot : {<<0, 0>>}]
           \cup [kind : {"Custom"}, pivot : CustomPivots]

Depths == {2, 4}

Subdivisions == {0, 1}

Styles == [depth : Depths, subdivision : Subdivisions,
           justify : Justifies, anchor : Anchors]

RECURSIVE SeqsUpTo(_, _)
SeqsUpTo(S, n) ==
    IF n = 0 THEN {<< >>}
    ELSE LET shorter == SeqsUpTo(S, n - 1)
         IN  shorter \cup {Append(s, c) : s \in shorter, c \in S}

Texts == SeqsUpTo(Chars, MaxLen)

\* ------------------------------------------------------------ str::split

\* text.split('\n'): the lines between the separators; a text with n
\* separators has n + 1 lines, the empty text one empty line.
RECURSIVE SplitFrom(_, _, _)
SplitFrom(text, k, cur) ==
    IF k > Len(text) THEN <<cur>>
    ELSE IF text[k] = NL THEN <<cur>> \o SplitFrom(text, k + 1, << >>)
    ELSE SplitFrom(text, k + 1, Append(cur, text[k]))

Split(text) == SplitFrom(text, 1, << >>)

\* ------------------------------------------------------ shared arithmetic

\* x * 0.5
Half(x) == x \div 2

\* ascender - descender + line_gap
LineHeight(font) == font.ascender - font.descender + font.line_gap

\* The line's width: the advance of every character the font has a glyph
\* for, FallbackSpace for whitespace it has none for.
RECURSIVE LineWidthFrom(_, _, _)
LineWidthFrom(font, line, k) ==
    IF k > Len(line) THEN 0
    ELSE (IF HasGlyph(font, line[k]) THEN GlyphAdvance(font, line[k])
          ELSE IF IsWhitespace(line[k]) THEN FallbackSpace
          ELSE 0)
         + LineWidthFrom(font, line, k + 1)

LineWidth(font, line) == LineWidthFrom(font, line, 1)

\* The X start offset of a line under the justification.
XStart(justify, line_width) ==
    CASE justify = "Left"   -> 0
      [] justify = "Center" -> -Half(line_width)
      [] justify = "Right"  -> -line_width

\* ------------------------------------------------- update_text_meshes: mesh

Min(a, b) == IF a < b THEN a ELSE b

Max(a, b) == IF a > b THEN a ELSE b

\* Vec3::min and Vec3::max, per component.
VecMin(a, b) == <<Min(a[1], b[1]), Min(a[2], b[2]), Min(a[3], b[3])>>

VecMax(a, b) == <<Max(a[1], b[1]), Max(a[2], b[2]), Max(a[3], b[3])>>

\* The state of one pass before its first line.  placed and line_log record
\* the cursor each glyph and each line was laid out with.
StartPass ==
    [all_vertices |-> << >>, all_normals |-> << >>, all_indices |-> << >>,
     cursor_x |-> 0, cursor_y |-> 0, index_offset |-> 0,
     min_bound |-> <<F32_MAX, F32_MAX, F32_MAX>>,
     max_bound |-> <<-F32_MAX, -F32_MAX, -F32_MAX>>,
     placed |-> << >>, line_log |-> << >>]

\* The vertices of a glyph mesh moved to the cursor.
RECURSIVE Translated(_, _, _, _)
Translated(vertices, k, cx, cy) ==
    IF k > Len(vertices) THEN << >>
    ELSE << <<vertices[k][1] + cx, vertices[k][2] + cy, vertices[k][3]>> >>
         \o Translated(vertices, k + 1, cx, cy)

RECURSIVE FoldMin(_, _, _)
FoldMin(vertices, k, bound) ==
    IF k > Len(vertices) THEN bound
    ELSE FoldMin(vertices, k + 1, VecMin(bound, vertices[k]))

RECURSIVE FoldMax(_, _, _)
FoldMax(vertices, k, bound) ==
    IF k > Len(vertices) THEN bound
    ELSE FoldMax(vertices, k + 1, VecMax(bound, vertices[k]))

\* all_indices.push(i + index_offset) for every index of the glyph mesh.
OffsetIndices(indices, index_offset) ==
    [k \in 1..Len(indices) |-> indices[k] + index_offset]

\* NextIndexOffset growing by the glyph's index count, not its vertex count.
NextIndexOffsetByIndices(index_offset, mesh) == index_offset + Len(mesh.indices)

\* index_offset += mesh.vertices.len() as u32
NextIndexOffset(index_offset, mesh) == index_offset + Len(mesh.vertices)

\* The Ok arm: the glyph mesh is merged at the cursor, then the cursor moves
\* by the glyph's advance.
MergeGlyph(font, ch, line_index, col, mesh, acc) ==
    LET moved == Translated(mesh.vertices, 1, acc.cursor_x, acc.cursor_y)
    IN  [acc EXCEPT
           !.all_vertices = @ \o moved,
           !.min_bound = FoldMin(moved, 1, @),
           !.max_bound = FoldMax(moved, 1, @),
           !.all_normals = @ \o mesh.normals,
           !.all_indices = @ \o OffsetIndices(mesh.indices, acc.index_offset),
           !.index_offset = NextIndexOffset(@, mesh),
           !.placed = Append(@, [character |-> ch, line_index |-> line_index,
                                 col |-> col,
                                 first_vertex |-> Len(acc.all_vertices),
                                 x |-> acc.cursor_x, y |-> acc.cursor_y]),
           !.cursor_x = @ + (IF HasGlyph(font, ch) THEN GlyphAdvance(font, ch)
                             ELSE 0)]

\* The Err arm: `continue`, with the cursor where it was.
SkipFailedGlyph(font, ch, acc) == acc

\* The whitespace arm: the cursor moves, nothing is generated.
SkipWhitespace(font, ch, acc) ==
    [acc EXCEPT !.cursor_x = @ + (IF HasGlyph(font, ch)
                                  THEN GlyphAdvance(font, ch)
                                  ELSE FallbackSpace)]

\* for ch in line.chars() { ... }
RECURSIVE MergeChars(_, _, _, _, _, _)
MergeChars(font, style, line, line_index, k, acc) ==
    IF k > Len(line) THEN acc
    ELSE LET ch == line[k]
             mesh_res == MeshRes(font, ch, style)
         IN  MergeChars(font, style, line, line_index, k + 1,
                 IF IsWhitespace(ch) THEN SkipWhitespace(font, ch, acc)
                 ELSE IF mesh_res.ok
                      THEN MergeGlyph(font, ch, line_index, k, mesh_res, acc)
                      ELSE SkipFailedGlyph(font, ch, acc))

\* NextLine moving down only below a line that placed a glyph.
NextLineBelowGlyphs(acc, line_height) ==
    IF \E j \in 1..Len(acc.placed) :
          acc.placed[j].line_index = Len(acc.line_log) - 1
    THEN [acc EXCEPT !.cursor_y = @ - line_height]
    ELSE acc

\* cursor.y -= line_height
NextLine(acc, line_height) == [acc EXCEPT !.cursor_y = @ - line_height]

\* One line: its width, the X start offset, its glyphs, then the next line.
MergeLine(font, style, line, line_index, acc) ==
    LET line_width == LineWidth(font, line)
        x_offset == XStart(style.justify, line_width)
        start == [acc EXCEPT
                    !.cursor_x = x_offset,
                    !.line_log = Append(@, [x_offset |-> x_offset,
                                            line_width |-> line_width,
                                            y |-> acc.cursor_y])]
    IN  NextLine(MergeChars(font, style, line, line_index, 1, start),
                 LineHeight(font))

\* for line in text_mesh.text.split('\n') { ... }
RECURSIVE MergeLines(_, _, _, _, _)
MergeLines(font, style, lines, i, acc) ==
    IF i > Len(lines) THEN acc
    ELSE MergeLines(font, style, lines, i + 1,
                    MergeLine(font, style, lines[i], i - 1, acc))

\* AnchorOffset with the Custom pivot clamped to the box.
AnchorOffsetClamped(anchor, min_bound, max_bound) ==
    LET size == <<max_bound[1] - min_bound[1], max_bound[2] - min_bound[2]>>
        center == <<min_bound[1] + Half(size[1]), min_bound[2] + Half(size[2])>>
        k == anchor.kind
    IN  CASE k = "TopLeft"      -> <<-min_bound[1], -max_bound[2], 0>>
          [] k = "TopCenter"    -> <<-center[1], -max_bound[2], 0>>
          [] k = "TopRight"     -> <<-max_bound[1], -max_bound[2], 0>>
          [] k = "CenterLeft"   -> <<-min_bound[1], -center[2], 0>>
          [] k = "Center"       -> <<-center[1], -center[2], 0>>
          [] k = "CenterRight"  -> <<-max_bound[1], -center[2], 0>>
          [] k = "BottomLeft"   -> <<-min_bound[1], -min_bound[2], 0>>
          [] k = "BottomCenter" -> <<-center[1], -min_bound[2], 0>>
          [] k = "BottomRight"  -> <<-max_bound[1], -min_bound[2], 0>>
          [] k = "Custom" ->
               <<-(min_bound[1]
                   + Half(size[1] * Max(0, Min(2, anchor.pivot[1])))),
                 -(min_bound[2]
                   + Half(size[2] * Max(0, Min(2, anchor.pivot[2])))), 0>>

\* The offset the anchor asks for, from the bounds of the merged vertices.
AnchorOffset(anchor, min_bound, max_bound) ==
    LET size == <<max_bound[1] - min_bound[1], max_bound[2] - min_bound[2]>>
        center == <<min_bound[1] + Half(size[1]), min_bound[2] + Half(size[2])>>
        k == anchor.kind
    IN  CASE k = "TopLeft"      -> <<-min_bound[1], -max_bound[2], 0>>
          [] k = "TopCenter"    -> <<-center[1], -max_bound[2], 0>>
          [] k = "TopRight"     -> <<-max_bound[1], -max_bound[2], 0>>
          [] k = "CenterLeft"   -> <<-min_bound[1], -center[2], 0>>
          [] k = "Center"       -> <<-center[1], -center[2], 0>>
          [] k = "CenterRight"  -> <<-max_bound[1], -center[2], 0>>
          [] k = "BottomLeft"   -> <<-min_bound[1], -min_bound[2], 0>>
          [] k = "BottomCenter" -> <<-center[1], -min_bound[2], 0>>
          [] k = "BottomRight"  -> <<-max_bound[1], -min_bound[2], 0>>
          [] k = "Custom" ->
               <<-(min_bound[1] + Half(size[1] * anchor.pivot[1])),
                 -(min_bound[2] + Half(size[2] * anchor.pivot[2])), 0>>

\* Step 4: every vertex moved by the anchor's offset, when there is a vertex.
ApplyAnchor(anchor, acc) ==
    IF acc.all_vertices /= << >>
    THEN LET offset == AnchorOffset(anchor, acc.min_bound, acc.max_bound)
         IN  [k \in 1..Len(acc.all_vertices) |->
                <<acc.all_vertices[k][1] + offset[1],
                  acc.all_vertices[k][2] + offset[2],
                  acc.all_vertices[k][3] + offset[3]>>]
    ELSE acc.all_vertices

\* Steps 3 to 5 of update_text_meshes for one entity whose font parsed: the
\* new mesh, with the record of the pass that built it.
CombinedMesh(font, text_mesh) ==
    LET acc == MergeLines(font, text_mesh.style, Split(text_mesh.text), 1,
                          StartPass)
    IN  [positions |-> ApplyAnchor(text_mesh.style.anchor, acc),
         normals |-> acc.all_normals,
         indices |-> acc.all_indices,
         pass |-> acc,
         source |-> <<text_mesh>>]

\* ------------------------------------------- update_glyph_meshes: children

\* The advance of a character in step 5: the glyph's, FallbackSpace for
\* whitespace the font has no glyph for, 0 for anything else.
CharAdvance(font, ch) ==
    IF HasGlyph(font, ch) THEN GlyphAdvance(font, ch)
    ELSE IF IsWhitespace(ch) THEN FallbackSpace
    ELSE 0

\* parent.spawn((GlyphMesh { .. }, Mesh3d(..), .., Transform::from_xyz(..)))
GlyphChild(char_index, line_index, ch, mesh, cursor_x, cursor_y) ==
    [glyph |-> TRUE,
     char_index |-> char_index, line_index |-> line_index, character |-> ch,
     positions |-> mesh.vertices, normals |-> mesh.normals,
     indices |-> mesh.indices,
     translation |-> <<cursor_x, cursor_y, 0>>]

\* AfterWhitespace counting the character and leaving the cursor.
AfterWhitespaceKeepCursor(st, advance) == [st EXCEPT !.char_index = @ + 1]

\* "Skip whitespace but still count it": cursor_x += advance; char_index += 1.
AfterWhitespace(st, advance) ==
    [st EXCEPT !.cursor_x = @ + advance, !.char_index = @ + 1]

\* After a character that is no whitespace, spawned or not:
\* cursor_x += advance; char_index += 1.
AfterGlyph(st, advance) ==
    [st EXCEPT !.cursor_x = @ + advance, !.char_index = @ + 1]

\* for ch in line.chars() { ... }: st holds char_index, cursor_x and the
\* children spawned so far.
RECURSIVE SpawnChars(_, _, _, _, _, _, _)
SpawnChars(font, style, line, line_index, cursor_y, k, st) ==
    IF k > Len(line) THEN st
    ELSE LET ch == line[k]
             advance == CharAdvance(font, ch)
             mesh_res == MeshRes(font, ch, style)
         IN  SpawnChars(font, style, line, line_index, cursor_y, k + 1,
                 IF IsWhitespace(ch) THEN AfterWhitespace(st, advance)
                 ELSE IF mesh_res.ok
                      THEN [AfterGlyph(st, advance) EXCEPT !.spawned =
                              Append(@, GlyphChild(st.char_index, line_index,
                                                   ch, mesh_res, st.cursor_x,
                                                   cursor_y))]
                      ELSE AfterGlyph(st, advance))

\* CountNewline forgetting the newline.
ForgetNewline(st) == st

\* char_index += 1 after each line, for its newline.
CountNewline(st) == [st EXCEPT !.char_index = @ + 1]

\* -(line_index as f32) * line_height
CursorY(line_index, line_height) == -line_index * line_height

\* for (line_index, line) in lines.iter().enumerate() { ... }
RECURSIVE SpawnLines(_, _, _, _, _)
SpawnLines(font, style, lines, i, st) ==
    IF i > Len(lines) THEN st
    ELSE LET line_index == i - 1
             line_width == LineWidth(font, lines[i])
             x_start == XStart(style.justify, line_width)
             cursor_y == CursorY(line_index, LineHeight(font))
         IN  SpawnLines(font, style, lines, i + 1,
                 CountNewline(
                     SpawnChars(font, style, lines[i], line_index, cursor_y, 1,
                                [st EXCEPT !.cursor_x = x_start])))

\* Steps 4 and 5 of update_glyph_meshes: the children the pass spawns, in
\* the order it spawns them.
Placements(font, text_glyphs) ==
    SpawnLines(font, text_glyphs.style, Split(text_glyphs.text), 1,
               [char_index |-> 0, cursor_x |-> 0, spawned |-> << >>]).spawned

\* DespawnGlyphs despawning nothing.
DespawnNothing(kids) == kids

\* Step 3: the children of the entity that are no GlyphMesh stay.
RECURSIVE DespawnGlyphs(_)
DespawnGlyphs(kids) ==
    IF kids = << >> THEN << >>
    ELSE (IF Head(kids).glyph THEN << >> ELSE <<Head(kids)>>)
         \o DespawnGlyphs(Tail(kids))

\* ------------------------------------------- FontMesh's metrics queries

\* The advance text_width and char_positions give a character: the glyph's
\* advance, a quarter of the font's height for whitespace the font has no
\* glyph for, nothing for any other character it has no glyph for.
MetricsAdvance(font, ch) ==
    IF HasGlyph(font, ch) THEN GlyphAdvance(font, ch)
    ELSE IF IsWhitespace(ch) THEN (font.ascender - font.descender) \div 4
    ELSE 0

\* A width that counts only the characters the font has a glyph for.
TextWidthOfGlyphsOnly(font, text) ==
    LET RECURSIVE Go(_, _)
        Go(k, width) ==
            IF k > Len(text) THEN width
            ELSE Go(k + 1, width + IF HasGlyph(font, text[k])
                                   THEN GlyphAdvance(font, text[k]) ELSE 0)
    IN  Go(1, 0)

\* FontMesh::text_width: the advances of the characters, added left to right.
TextWidth(font, text) ==
    LET RECURSIVE Go(_, _)
        Go(k, width) ==
            IF k > Len(text) THEN width
            ELSE Go(k + 1, width + MetricsAdvance(font, text[k]))
    IN  Go(1, 0)

\* FontMesh::char_positions: (index, x) of each character, x being the
\* cursor before the character's advance is added to it.
CharPositions(font, text) ==
    LET RECURSIVE Go(_, _, _)
        Go(k, x, positions) ==
            IF k > Len(text) THEN positions
            ELSE Go(k + 1, x + MetricsAdvance(font, text[k]),
                    Append(positions, <<k - 1, x>>))
    IN  Go(1, 0, << >>)

\* ----------------------------------------------------------------- state

VARIABLES
    font_assets,   \* Assets<FontMesh>: the fonts whose bytes are loaded
    text_mesh,     \* the TextMesh component of the combined-mesh entity
    tm_changed,    \* Changed<TextMesh> as update_text_meshes will see it
    tm_computed,   \* the entity has the TextMeshComputed marker
    mesh3d,        \* the mesh its Mesh3d handle points to, with the pass
                   \* that built it and the component value it was built from
    tm_warned,     \* warn! lines for it since its component last changed
    text_glyphs,   \* the TextMeshGlyphs component of the per-glyph entity
    tg_changed,    \* Changed<TextMeshGlyphs> as update_glyph_meshes will see it
    tg_computed,   \* the entity has the TextMeshGlyphsComputed marker
    children,      \* its Children, in order
    last_spawn,    \* the last pass that spawned: its input, what it despawned
    tg_warned,     \* warn! lines for it since its component last changed
    measure        \* a metrics query: its font and text, and what it returned

tm_vars == <<text_mesh, tm_changed, tm_computed, mesh3d, tm_warned>>

tg_vars == <<text_glyphs, tg_changed, tg_computed, children, last_spawn,
             tg_warned>>

vars == <<font_assets, tm_vars, tg_vars, measure>>

\* Mesh3d::default(): the handle of an entity no pass has assigned yet.
NoMesh == [positions |-> << >>, normals |-> << >>, indices |-> << >>,
           pass |-> StartPass, source |-> << >>]

\* No pass has spawned yet.
NoSpawn == [source |-> << >>, despawned |-> 0]

\* A child of the per-glyph entity that is no GlyphMesh.
OtherChild == [glyph |-> FALSE]

\* No metrics query has been asked.
NoMeasure == [font |-> "f1", text |-> << >>, asked |-> FALSE, result |-> << >>]

\* What the host sets the components to while the systems run.
EditTexts == {<<"A", "x", "B">>, <<"B", NL, "t", "A">>}

EditStyles ==
    {[depth |-> 2, subdivision |-> 1, justify |-> "Center",
      anchor |-> [kind |-> "Center", pivot |-> <<0, 0>>]],
     [depth |-> 4, subdivision |-> 0, justify |-> "Right",
      anchor |-> [kind |-> "TopLeft", pivot |-> <<0, 0>>]]}

EditInputs ==
    {v \in [text : EditTexts, font : FontIds, style : EditStyles] :
        v.text[1] = "A" \/ v.style.justify = "Right"}

\* update_text_meshes on the entity its query matched: the values of the
\* Mesh3d handle and of the marker after the pass, and the warnings logged.
TextMeshPass(loaded, tm, handle, computed) ==
    IF tm.font \notin loaded
    THEN [mesh3d |-> handle, computed |-> computed, warn |-> 0]
    ELSE IF ~FromBytes(tm.font).ok
    THEN [mesh3d |-> handle, computed |-> computed, warn |-> 1]
    ELSE [mesh3d |-> CombinedMesh(FromBytes(tm.font), tm),
          computed |-> TRUE, warn |-> 0]

\* GlyphMeshesPass with step 3 ahead of steps 1 and 2: the glyph children
\* are despawned before the font is looked at.
GlyphMeshesPassDespawnFirst(loaded, tg, kids, computed, from) ==
    IF tg.font \notin loaded
    THEN [children |-> DespawnGlyphs(kids), computed |-> computed,
          from |-> from, warn |-> 0]
    ELSE IF ~FromBytes(tg.font).ok
    THEN [children |-> DespawnGlyphs(kids), computed |-> computed,
          from |-> from, warn |-> 1]
    ELSE [children |-> DespawnGlyphs(kids) \o Placements(FromBytes(tg.font), tg),
          computed |-> TRUE,
          from |-> [source |-> <<tg>>,
                    despawned |-> Len(kids) - Len(DespawnGlyphs(kids))],
          warn |-> 0]

\* update_glyph_meshes on the entity its query matched, with the queued
\* commands applied: the despawns first, then the spawns, then the marker.
GlyphMeshesPass(loaded, tg, kids, computed, from) ==
    IF tg.font \notin loaded
    THEN [children |-> kids, computed |-> computed, from |-> from, warn |-> 0]
    ELSE IF ~FromBytes(tg.font).ok
    THEN [children |-> kids, computed |-> computed, from |-> from, warn |-> 1]
    ELSE [children |-> DespawnGlyphs(kids) \o Placements(FromBytes(tg.font), tg),
          computed |-> TRUE,
          from |-> [source |-> <<tg>>,
                    despawned |-> Len(kids) - Len(DespawnGlyphs(kids))],
          warn |-> 0]

\* Or<(Changed<TextMesh>, Without<TextMeshComputed>)>
TextMeshQuery == IF tm_changed THEN TRUE ELSE ~tm_computed

\* Or<(Changed<TextMeshGlyphs>, Without<TextMeshGlyphsComputed>)>
TextMeshGlyphsQuery == IF tg_changed THEN TRUE ELSE ~tg_computed

\* ---------------------------------------------------------------- actions

\* The asset server finishes loading a font.
LoadFont(f) ==
    /\ f \notin font_assets
    /\ font_assets' = font_assets \cup {f}
    /\ UNCHANGED <<tm_vars, tg_vars, measure>>

\* The host writes the TextMesh component.
ChangeTextMesh(v) ==
    /\ text_mesh' = v
    /\ tm_changed' = TRUE
    /\ tm_warned' = 0
    /\ UNCHANGED <<font_assets, tm_computed, mesh3d, tg_vars, measure>>

\* The host writes the TextMeshGlyphs component.
ChangeTextMeshGlyphs(v) ==
    /\ text_glyphs' = v
    /\ tg_changed' = TRUE
    /\ tg_warned' = 0
    /\ UNCHANGED <<font_assets, tg_computed, children, last_spawn, tm_vars,
                   measure>>

\* What a run of update_text_meshes does to the entity its query matches.
RunTextMeshes ==
    /\ TextMeshQuery
    /\ LET out == TextMeshPass(font_assets, text_mesh, mesh3d, tm_computed)
       IN  /\ tm_warned + out.warn <= MaxWarnings
           /\ mesh3d' = out.mesh3d
           /\ tm_computed' = out.computed
           /\ tm_warned' = tm_warned + out.warn
    /\ tm_changed' = FALSE
    /\ UNCHANGED text_mesh

\* What a run of update_glyph_meshes does to the entity its query matches.
RunGlyphMeshes ==
    /\ TextMeshGlyphsQuery
    /\ LET out == GlyphMeshesPass(font_assets, text_glyphs, children,
                                  tg_computed, last_spawn)
       IN  /\ tg_warned + out.warn <= MaxWarnings
           /\ children' = out.children
           /\ tg_computed' = out.computed
           /\ last_spawn' = out.from
           /\ tg_warned' = tg_warned + out.warn
    /\ tg_changed' = FALSE
    /\ UNCHANGED text_glyphs

\* A run of update_text_meshes alone.
UpdateTextMeshes ==
    RunTextMeshes /\ UNCHANGED <<font_assets, tg_vars, measure>>

\* A run of update_glyph_meshes alone.
UpdateGlyphMeshes ==
    RunGlyphMeshes /\ UNCHANGED <<font_assets, tm_vars, measure>>

\* One frame of the schedule in which both queries match: both systems run.
Frame == RunTextMeshes /\ RunGlyphMeshes /\ UNCHANGED <<font_assets, measure>>

\* The host asks for the width of a text and the positions of its characters.
MeasureText ==
    /\ ~measure.asked
    /\ LET font == FromBytes(measure.font)
       IN  measure' = [measure EXCEPT
               !.asked = TRUE,
               !.result = <<[width |-> TextWidth(font, measure.text),
                             positions |-> CharPositions(font, measure.text)]>>]
    /\ UNCHANGED <<font_assets, tm_vars, tg_vars>>

\* --------------------------------------------------------- specifications

\* Both entities as spawned: no font loaded, nothing computed.
Init ==
    /\ font_assets = {}
    /\ text_mesh \in EditInputs
    /\ tm_changed = TRUE
    /\ tm_computed = FALSE
    /\ mesh3d = NoMesh
    /\ tm_warned = 0
    /\ text_glyphs \in EditInputs
    /\ tg_changed = TRUE
    /\ tg_computed = FALSE
    /\ children = <<OtherChild>>
    /\ last_spawn = NoSpawn
    /\ tg_warned = 0
    /\ measure = NoMeasure

Next ==
    \/ \E f \in FontIds : LoadFont(f)
    \/ \E v \in EditInputs : ChangeTextMesh(v)
    \/ \E v \in EditInputs : ChangeTextMeshGlyphs(v)
    \/ UpdateTextMeshes
    \/ UpdateGlyphMeshes

Spec == Init /\ [][Next]_vars

\* The layout of any text under any style: both entities carry the same
\* text and style, the parseable font is loaded, and a frame runs.
LayoutInit ==
    /\ font_assets = FontIds
    /\ \E t \in Texts, st \in Styles :
          /\ text_mesh = [text |-> t, font |-> "f1", style |-> st]
          /\ text_glyphs = [text |-> t, font |-> "f1", style |-> st]
    /\ tm_changed = TRUE
    /\ tm_computed = FALSE
    /\ mesh3d = NoMesh
    /\ tm_warned = 0
    /\ tg_changed = TRUE
    /\ tg_computed = FALSE
    /\ children = <<OtherChild>>
    /\ last_spawn = NoSpawn
    /\ tg_warned = 0
    /\ measure = NoMeasure

LayoutNext == Frame

LayoutSpec == LayoutInit /\ [][LayoutNext]_vars

\* The same under one depth and subdivision, for the comparison of a pass
\* with the passes under every other anchor.
AnchorStyles == {st \in Styles : st.depth = 2 /\ st.subdivision = 1}

AnchorInit ==
    /\ font_assets = FontIds
    /\ \E t \in Texts, st \in AnchorStyles :
          /\ text_mesh = [text |-> t, font |-> "f1", style |-> st]
          /\ text_glyphs = [text |-> t, font |-> "f1", style |-> st]
    /\ tm_changed = TRUE
    /\ tm_computed = FALSE
    /\ mesh3d = NoMesh
    /\ tm_warned = 0
    /\ tg_changed = TRUE
    /\ tg_computed = FALSE
    /\ children = <<OtherChild>>
    /\ last_spawn = NoSpawn
    /\ tg_warned = 0
    /\ measure = NoMeasure

AnchorNext == Frame

AnchorSpec == AnchorInit /\ [][AnchorNext]_vars

\* A metrics query of any text in either parseable font, the entities left
\* as they were spawned.
MetricsFonts == {f \in FontIds : FromBytes(f).ok}

MetricsInit ==
    /\ font_assets = FontIds
    /\ text_mesh = [text |-> << >>, font |-> "f1",
                    style |-> CHOOSE st \in EditStyles : TRUE]
    /\ tm_changed = TRUE
    /\ tm_computed = FALSE
    /\ mesh3d = NoMesh
    /\ tm_warned = 0
    /\ text_glyphs = text_mesh
    /\ tg_changed = TRUE
    /\ tg_computed = FALSE
    /\ children = <<OtherChild>>
    /\ last_spawn = NoSpawn
    /\ tg_warned = 0
    /\ \E f \in MetricsFonts, t \in Texts :
          measure = [font |-> f, text |-> t, asked |-> FALSE, result |-> << >>]

MetricsNext == MeasureText

MetricsSpec == MetricsInit /\ [][MetricsNext]_vars

\* ------------------------------------------------------------ properties

\* The font the handle names is loaded and its bytes parse.
Usable(f) == f \in font_assets /\ FromBytes(f).ok

IsGlyph(child) == child.glyph

IsOther(child) == ~child.glyph

\* C1: every index of the combined mesh is below its vertex count, and a
\* mesh without vertices has no index.
IndexIntegrity ==
    /\ \A k \in 1..Len(mesh3d.indices) :
          mesh3d.indices[k] >= 0 /\ mesh3d.indices[k] < Len(mesh3d.positions)
    /\ mesh3d.positions = << >> => mesh3d.indices = << >>

\* Two glyphs merged around a character whose mesh failed: the second one's
\* indices are offset.
IndexIntegrityWitness ==
    /\ tm_computed
    /\ mesh3d.source[1].text = <<"B", "x", "A">>
    /\ Len(mesh3d.pass.placed) = 2
    /\ \E k \in 1..Len(mesh3d.indices) : mesh3d.indices[k] >= 4

\* C2: a run of either system that finds the font not loaded or not
\* parseable leaves the mesh handle, the children and the marker as they
\* were.
SkippedPassChangesNothing ==
    [][/\ (UpdateTextMeshes /\ ~Usable(text_mesh.font))
            => (mesh3d' = mesh3d /\ tm_computed' = tm_computed)
       /\ (UpdateGlyphMeshes /\ ~Usable(text_glyphs.font))
            => (children' = children /\ tg_computed' = tg_computed)]_vars

\* Both entities were computed, then given a font that is not usable, and a
\* run of each system has passed: the earlier output is still there.
SkippedPassWitness ==
    /\ ~tm_changed /\ ~Usable(text_mesh.font)
    /\ tm_computed /\ Len(mesh3d.positions) > 0
    /\ ~tg_changed /\ ~Usable(text_glyphs.font)
    /\ tg_computed /\ Len(children) > 1

\* C3: a pass skipped because the font is not loaded yet is retried: the
\* next run of the system still finds the entity in its query, so that the
\* output is rebuilt from the current component once the font is there.
SkippedPassIsRetried ==
    [][/\ (UpdateTextMeshes /\ text_mesh.font \notin font_assets)
            => TextMeshQuery'
       /\ (UpdateGlyphMeshes /\ text_glyphs.font \notin font_assets)
            => TextMeshGlyphsQuery']_vars

\* C4: the GlyphMesh children are the placements of the last pass that
\* spawned, in its order, and the other children are untouched.
OnlyLatestGlyphs ==
    /\ SelectSeq(children, IsOther) = <<OtherChild>>
    /\ SelectSeq(children, IsGlyph) =
          IF last_spawn.source = << >> THEN << >>
          ELSE Placements(FromBytes(last_spawn.source[1].font),
                          last_spawn.source[1])

\* A pass has replaced the glyph children of an earlier one.
OnlyLatestGlyphsWitness ==
    /\ last_spawn.despawned > 0
    /\ last_spawn.source = <<text_glyphs>>
    /\ Len(children) > 1

\* The line of the character at position p of the text: the newlines
\* before it.
LineOf(text, p) == Cardinality({q \in 1..(p - 1) : text[q] = NL})

\* The first position of the line that holds position p.
LineFirst(text, p) ==
    CHOOSE q \in 1..p :
        /\ q = 1 \/ text[q - 1] = NL
        /\ \A r \in q..(p - 1) : text[r] /= NL

\* The last position of the line that holds position p.
LineLast(text, p) ==
    CHOOSE q \in p..Len(text) :
        /\ q = Len(text) \/ text[q + 1] = NL
        /\ \A r \in p..q : text[r] /= NL

\* The advances of the characters at positions from..to.
RECURSIVE SumAdvances(_, _, _, _)
SumAdvances(font, text, from, to) ==
    IF from > to THEN 0
    ELSE CharAdvance(font, text[from]) + SumAdvances(font, text, from + 1, to)

\* The positions of the characters that get geometry: no whitespace, and a
\* mesh that generates.
Visible(font, style, text) ==
    {p \in 1..Len(text) :
        ~IsWhitespace(text[p]) /\ MeshRes(font, text[p], style).ok}

\* The j-th position of E in increasing order.
NthOf(E, j) == CHOOSE p \in E : Cardinality({q \in E : q < p}) = j - 1

\* Where the claims put the character at position p: the X start of its
\* line under the justification plus the advances before it in the line.
ExpectedX(font, justify, text, p) ==
    LET width == SumAdvances(font, text, LineFirst(text, p), LineLast(text, p))
        before == SumAdvances(font, text, LineFirst(text, p), p - 1)
    IN  CASE justify = "Left"   -> before
          [] justify = "Center" -> before - (width \div 2)
          [] justify = "Right"  -> before - width

\* The GlyphMesh children, in order.
GlyphKids == SelectSeq(children, IsGlyph)

\* C5: in the combined mesh a character whose mesh fails contributes no
\* geometry, and every glyph is merged at the X start of its line plus the
\* advances of all characters before it in the line, failed ones included.
FailedGlyphStillAdvances ==
    mesh3d.source /= << >> =>
        LET tm == mesh3d.source[1]
            font == FromBytes(tm.font)
            E == Visible(font, tm.style, tm.text)
            placed == mesh3d.pass.placed
        IN  /\ Len(placed) = Cardinality(E)
            /\ \A j \in 1..Len(placed) :
                  placed[j].x = ExpectedX(font, tm.style.justify, tm.text,
                                          NthOf(E, j))

\* C6: one child per character that is no whitespace and whose mesh
\* generates, at (X start of its line + the advances before it in the line,
\* -line * line_height, 0), with the glyph's own untranslated mesh.
PlacementsAtAdvanceSums ==
    last_spawn.source /= << >> =>
        LET tg == last_spawn.source[1]
            font == FromBytes(tg.font)
            E == Visible(font, tg.style, tg.text)
        IN  /\ Len(GlyphKids) = Cardinality(E)
            /\ \A j \in 1..Len(GlyphKids) :
                  LET p == NthOf(E, j)
                  IN  /\ GlyphKids[j].character = tg.text[p]
                      /\ GlyphKids[j].translation =
                            <<ExpectedX(font, tg.style.justify, tg.text, p),
                              -LineOf(tg.text, p) * LineHeight(font), 0>>
                      /\ GlyphKids[j].positions =
                            ToMesh3d(tg.text[p], tg.style.subdivision,
                                     tg.style.depth).vertices

\* "A", a character without glyph, advance or outline, then "B", centred:
\* two children, B one advance of A to the right of A.
PlacementsWitness ==
    /\ tg_computed
    /\ text_glyphs.text = <<"A", "z", "B">>
    /\ text_glyphs.style.justify = "Center"
    /\ Len(GlyphKids) = 2
    /\ GlyphKids[2].translation[1] = GlyphKids[1].translation[1] + 8
    /\ GlyphKids[1].translation[1] = -10

\* C7: char_index is the 0-based position of the character in the whole
\* text, newlines counted, line_index the number of newlines before it;
\* char_index grows strictly from child to child.
CharIndexIsTextPosition ==
    last_spawn.source /= << >> =>
        LET tg == last_spawn.source[1]
            E == Visible(FromBytes(tg.font), tg.style, tg.text)
        IN  /\ Len(GlyphKids) = Cardinality(E)
            /\ \A j \in 1..Len(GlyphKids) :
                  /\ GlyphKids[j].char_index = NthOf(E, j) - 1
                  /\ GlyphKids[j].line_index = LineOf(tg.text, NthOf(E, j))
            /\ \A j \in 1..(Len(GlyphKids) - 1) :
                  GlyphKids[j].char_index < GlyphKids[j + 1].char_index

\* A glyph behind a failed character and a newline.
CharIndexWitness ==
    /\ tg_computed
    /\ text_glyphs.text = <<"x", NL, "A">>
    /\ Len(GlyphKids) = 1
    /\ GlyphKids[1].char_index = 2
    /\ GlyphKids[1].line_index = 1

PivotOf(anchor) ==
    CASE anchor.kind = "TopLeft"      -> <<0, 2>>
      [] anchor.kind = "TopCenter"    -> <<1, 2>>
      [] anchor.kind = "TopRight"     -> <<2, 2>>
      [] anchor.kind = "CenterLeft"   -> <<0, 1>>
      [] anchor.kind = "Center"       -> <<1, 1>>
      [] anchor.kind = "CenterRight"  -> <<2, 1>>
      [] anchor.kind = "BottomLeft"   -> <<0, 0>>
      [] anchor.kind = "BottomCenter" -> <<1, 0>>
      [] anchor.kind = "BottomRight"  -> <<2, 0>>
      [] anchor.kind = "Custom"       -> anchor.pivot

\* The least and the greatest coordinate c of the vertices.
Least(positions, c) ==
    CHOOSE v \in {positions[k][c] : k \in 1..Len(positions)} :
        \A k \in 1..Len(positions) : v <= positions[k][c]

Greatest(positions, c) ==
    CHOOSE v \in {positions[k][c] : k \in 1..Len(positions)} :
        \A k \in 1..Len(positions) : v >= positions[k][c]

\* The point of the vertices' bounding box at the pivot lies at 0 on axis c.
PivotAtOrigin(positions, pivot, c) ==
    2 * Least(positions, c)
        + (Greatest(positions, c) - Least(positions, c)) * pivot[c] = 0

\* The positions of b are those of a moved by one vector with no z part.
MovedByConstant(a, b) ==
    /\ Len(a) = Len(b)
    /\ \A k \in 1..Len(a) :
          /\ b[k][1] - a[k][1] = b[1][1] - a[1][1]
          /\ b[k][2] - a[k][2] = b[1][2] - a[1][2]
          /\ b[k][3] = a[k][3]

\* C9: a pass under any other anchor gives the same normals and indices and
\* the same vertices moved by one vector with no z part; the anchor's point
\* of the bounding box ends at the origin, an out-of-range Custom pivot
\* included; with no vertex nothing is moved.
AnchorOnlyTranslates ==
    mesh3d.source /= << >> =>
        LET tm == mesh3d.source[1]
        IN  /\ \A a \in Anchors :
                  LET other == CombinedMesh(FromBytes(tm.font),
                                   [tm EXCEPT !.style.anchor = a])
                  IN  /\ other.normals = mesh3d.normals
                      /\ other.indices = mesh3d.indices
                      /\ MovedByConstant(mesh3d.positions, other.positions)
            /\ MovedByConstant(mesh3d.pass.all_vertices, mesh3d.positions)
            /\ mesh3d.positions /= << >> =>
                  /\ PivotAtOrigin(mesh3d.positions,
                                   PivotOf(tm.style.anchor), 1)
                  /\ PivotAtOrigin(mesh3d.positions,
                                   PivotOf(tm.style.anchor), 2)

\* Two lines of glyphs under a Custom pivot outside the box: the vertices
\* were moved, and none of them is at or right of the origin.
AnchorWitness ==
    /\ tm_computed
    /\ text_mesh.text = <<"A", NL, "B">>
    /\ text_mesh.style.anchor = [kind |-> "Custom", pivot |-> <<-1, 3>>]
    /\ mesh3d.positions /= mesh3d.pass.all_vertices
    /\ Least(mesh3d.positions, 1) > 0

\* C10: since its component last changed, at most one warning was logged
\* for an entity.
OneWarningPerChange == tm_warned <= 1 /\ tg_warned <= 1

\* The advances of the characters of text from position k on, added up.
RECURSIVE SumMetricsAdvances(_, _, _)
SumMetricsAdvances(font, text, k) ==
    IF k > Len(text) THEN 0
    ELSE MetricsAdvance(font, text[k]) + SumMetricsAdvances(font, text, k + 1)

\* C11: a metrics query returns a width equal to the sum of the advances of
\* the characters and one position per character; the positions never
\* decrease in x, the first is (0, 0) when the text is not empty, and for
\* the empty text the width is 0 and there are no positions.
MeasureIsSumOfAdvances ==
    measure.asked =>
        LET font == FromBytes(measure.font)
            text == measure.text
            width == measure.result[1].width
            positions == measure.result[1].positions
        IN  /\ width = SumMetricsAdvances(font, text, 1)
            /\ Len(positions) = Len(text)
            /\ \A i \in 2..Len(positions) :
                  positions[i][2] >= positions[i - 1][2]
            /\ text # << >> => positions[1] = <<0, 0>>
            /\ text = << >> => width = 0 /\ positions = << >>

\* "A", a tab the font has no glyph for and a letter it has no glyph for
\* were measured in the first font: 8, then 5 more, then nothing more.
MeasureWitness ==
    /\ measure.asked
    /\ measure.font = "f1"
    /\ measure.text = <<"A", "t", "z">>
    /\ measure.result[1].width = 13
    /\ measure.result[1].positions = <<<<0, 0>>, <<1, 8>>, <<2, 13>>>>

====
